---- MODULE Spec2Model ----
(***************************************************************************)
(* Model of the garden-groups fence pricing engine (day12):                *)
(* Gardener::find_garden_groups scans the garden in row-major order and    *)
(* builds one Region per unvisited seed by a recursive flood fill          *)
(* (Region::traverse_from_position); Gardener::get_fence_pricing sums      *)
(* area * perimeter or area * sides over the regions.                      *)
(*                                                                         *)
(* Coordinates are 0-based as in the source: a cell is (x, y) with x the   *)
(* column and y the row; garden[r][c] of the source is At(garden, r, c).   *)
(***************************************************************************)
EXTENDS Integers, Sequences, FiniteSets, TLC

VARIABLES garden, order, pc, r, c, visited_garden_plots, garden_groups,
          plant, traverse_positions, region_visited_garden_plots, stack,
          returned, out_of_range_read

vars == <<garden, order, pc, r, c, visited_garden_plots, garden_groups,
          plant, traverse_positions, region_visited_garden_plots, stack,
          returned, out_of_range_read>>

(* ---------------------------------------------------------------- bounds *)

\* The small gardens are all rectangular gardens of at most MaxCells cells.
MaxCells == 6

\* Plant labels of the small gardens.
Labels == {"A", "B"}

(* ------------------------------------------------------------ the inputs *)

\* the 4x4 garden of GetAFencePricing
GardenA ==
   << <<"A","A","A","A">>,
      <<"B","B","C","D">>,
      <<"B","B","C","C">>,
      <<"E","E","E","C">> >>

\* the 5x5 O/X garden of GetXFencePricing
GardenX ==
   << <<"O","O","O","O","O">>,
      <<"O","X","O","X","O">>,
      <<"O","O","O","O","O">>,
      <<"O","X","O","X","O">>,
      <<"O","O","O","O","O">> >>

\* the 5x5 E garden of GetEFencePricingWithSides
GardenE ==
   << <<"E","E","E","E","E">>,
      <<"E","X","X","X","X">>,
      <<"E","E","E","E","E">>,
      <<"E","X","X","X","X">>,
      <<"E","E","E","E","E">> >>

\* the 6x6 A/B garden of GetABFencePricingWithSides
GardenAB ==
   << <<"A","A","A","A","A","A">>,
      <<"A","A","A","B","B","A">>,
      <<"A","A","A","B","B","A">>,
      <<"A","B","B","A","A","A">>,
      <<"A","B","B","A","A","A">>,
      <<"A","A","A","A","A","A">> >>

\* the 10x10 R garden of GetRFencePricing
GardenR ==
   << <<"R","R","R","R","I","I","C","C","F","F">>,
      <<"R","R","R","R","I","I","C","C","C","F">>,
      <<"V","V","R","R","R","C","C","F","F","F">>,
      <<"V","V","R","C","C","C","J","F","F","F">>,
      <<"V","V","V","V","C","J","J","C","F","E">>,
      <<"V","V","I","V","C","C","J","J","E","E">>,
      <<"V","V","I","I","I","C","J","J","E","E">>,
      <<"M","I","I","I","I","I","J","J","E","E">>,
      <<"M","I","I","I","S","I","J","E","E","E">>,
      <<"M","M","M","I","S","S","J","E","E","E">> >>

TestGardens == {GardenA, GardenX, GardenE, GardenAB, GardenR}

\* Every rectangular garden of rows x cols cells over Labels, rows * cols <= MaxCells.
SmallGardens ==
   UNION { [1..rows -> [1..cols -> Labels]] :
              <<rows, cols>> \in { d \in (1..MaxCells) \X (1..MaxCells) : d[1] * d[2] <= MaxCells } }

\* The gardens with rows of unequal length have at most MaxRaggedCells cells.
MaxRaggedCells == 4

\* A garden whose rows all have the length of its first row
Rectangular(g) == \A i \in 1..Len(g) : Len(g[i]) = Len(g[1])

\* The rows of at most n cells over Labels, the row with no cell among them
RowsUpTo(n) == UNION { [1..len -> Labels] : len \in 0..n }

\* Every garden of two or three rows over Labels, the rows not all of one length, with
\* at most MaxRaggedCells cells
RaggedGardens ==
   { g \in UNION { [1..rows -> RowsUpTo(MaxRaggedCells)] : rows \in 2..3 } :
        /\ ~Rectangular(g)
        /\ Len(g[1]) + Len(g[2]) + (IF Len(g) = 3 THEN Len(g[3]) ELSE 0) <= MaxRaggedCells }

\* The gardens of one to three rows with no cell: {{}}, {{}, {}} and {{}, {}, {}}
EmptyRowGardens == { [i \in 1..rows |-> << >>] : rows \in 1..3 }

\* The gardens a Gardener is constructed on; << >> is the garden with zero rows.
Gardens ==
   SmallGardens \cup TestGardens \cup RaggedGardens \cup EmptyRowGardens \cup { << >> }

(* ------------------------------------------------------------- the types *)

\* enum SideOrientation, in declaration order
SideOrientation == <<"UPPER", "LOWER", "LEFT", "RIGHT">>

Orientations == {"UPPER", "LOWER", "LEFT", "RIGHT"}

\* enum class SideStatus
SideStatus == {"ADJACENT_TO_OTHER_PLANT_TYPE", "OUT_OF_BOUNDS", "AVAILABLE", "VISITED"}

\* The orders in which a range-for over side_status_map (an unordered_map) may
\* visit its four keys: the standard leaves the order to the library.
IterationOrders ==
   { o \in [1..4 -> Orientations] : \A i, j \in 1..4 : i # j => o[i] # o[j] }

\* std::nullopt
NullOpt == [none |-> TRUE]

\* Position::Position
Position(x, y) == [x_position |-> x, y_position |-> y]

\* garden.size() and garden[0].size()
Rows(g) == Len(g)
Cols(g) == Len(g[1])

\* garden[rr][cc], visited_garden_plots[rr][cc] (0-based)
At(g, rr, cc) == g[rr + 1][cc + 1]

\* visited_garden_plots.resize(garden.size(), std::vector<bool>(garden[0].size(), false))
\* on an empty visited grid
ResizedVisited(g) == [i \in 1..Rows(g) |-> [j \in 1..Cols(g) |-> FALSE]]

\* visited_garden_plots[rr][cc] = true
MarkVisited(v, rr, cc) == [v EXCEPT ![rr + 1][cc + 1] = TRUE]

(* ------------------------------------------------------ region building *)

\* update_side_status that never looks at the visited grid: a neighbour of the
\* region's plant is AVAILABLE
update_side_status_never_visited(x, y, g, p, v) ==
   [o \in Orientations |->
      LET rr == CASE o = "UPPER" -> y - 1 [] o = "LOWER" -> y + 1 [] OTHER -> y
          cc == CASE o = "LEFT" -> x - 1 [] o = "RIGHT" -> x + 1 [] OTHER -> x
      IN  IF rr < 0 \/ rr > Rows(g) - 1 \/ cc < 0 \/ cc > Cols(g) - 1 THEN "OUT_OF_BOUNDS"
          ELSE IF At(g, rr, cc) # p THEN "ADJACENT_TO_OTHER_PLANT_TYPE"
          ELSE "AVAILABLE"]

\* Region::update_side_status: the four statuses of the cell (x, y) for a region of
\* plant p whose visited grid is v.
update_side_status(x, y, g, p, v) ==
   LET up    == y - 1
       down  == y + 1
       left  == x - 1
       right == x + 1
   IN  [o \in Orientations |->
          CASE o = "UPPER" ->
                  IF up < 0 THEN "OUT_OF_BOUNDS"
                  ELSE IF At(g, up, x) # p THEN "ADJACENT_TO_OTHER_PLANT_TYPE"
                  ELSE IF At(v, up, x) THEN "VISITED"
                  ELSE "AVAILABLE"
            [] o = "LOWER" ->
                  IF down > Rows(g) - 1 THEN "OUT_OF_BOUNDS"
                  ELSE IF At(g, down, x) # p THEN "ADJACENT_TO_OTHER_PLANT_TYPE"
                  ELSE IF At(v, down, x) THEN "VISITED"
                  ELSE "AVAILABLE"
            [] o = "LEFT" ->
                  IF left < 0 THEN "OUT_OF_BOUNDS"
                  ELSE IF At(g, y, left) # p THEN "ADJACENT_TO_OTHER_PLANT_TYPE"
                  ELSE IF At(v, y, left) THEN "VISITED"
                  ELSE "AVAILABLE"
            [] o = "RIGHT" ->
                  IF right > Cols(g) - 1 THEN "OUT_OF_BOUNDS"
                  ELSE IF At(g, y, right) # p THEN "ADJACENT_TO_OTHER_PLANT_TYPE"
                  ELSE IF At(v, y, right) THEN "VISITED"
                  ELSE "AVAILABLE"]

\* Region::get_traverse_position: std::nullopt outside the garden, else the
\* TraversePosition of (rr, cc) with its four statuses.
get_traverse_position(rr, cc, g, p, v) ==
   IF rr < 0 \/ rr >= Rows(g) \/ cc < 0 \/ cc >= Cols(g)
   THEN NullOpt
   ELSE [x_position |-> cc, y_position |-> rr, value |-> At(g, rr, cc),
         side_status_map |-> update_side_status(cc, rr, g, p, v)]

\* garden[rr][cc] names an element of row rr
InRow(g, rr, cc) == cc < Len(g[rr + 1])

\* Every element of the garden that get_traverse_position(rr, cc) and the
\* update_side_status it calls read lies inside its row: the cell itself and each
\* neighbour that the tests against garden.size() and garden[0].size() let through
reads_in_range(rr, cc, g) ==
   IF rr < 0 \/ rr >= Rows(g) \/ cc < 0 \/ cc >= Cols(g)
   THEN TRUE
   ELSE /\ InRow(g, rr, cc)
        /\ rr - 1 >= 0 => InRow(g, rr - 1, cc)
        /\ rr + 1 <= Rows(g) - 1 => InRow(g, rr + 1, cc)
        /\ cc + 1 <= Cols(g) - 1 => InRow(g, rr, cc + 1)

\* TraversePosition::update_side_status: side_status_map[side_orientation] = status
tp_update_side_status(tp, side_orientation, status) ==
   [tp EXCEPT !.side_status_map[side_orientation] = status]

\* new_r_of with the two vertical directions taken for each other
new_r_of_swapped(tp, side_orientation) ==
   CASE side_orientation = "LOWER" -> tp.y_position - 1
     [] side_orientation = "UPPER" -> tp.y_position + 1
     [] OTHER -> tp.y_position

\* The row of the neighbour in a direction (the first switch of traverse_from_position)
new_r_of(tp, side_orientation) ==
   CASE side_orientation = "LOWER" -> tp.y_position + 1
     [] side_orientation = "UPPER" -> tp.y_position - 1
     [] OTHER -> tp.y_position

\* new_c_of with the LEFT case of the switch lost: the column never decreases
new_c_of_without_left(tp, side_orientation) ==
   IF side_orientation = "RIGHT" THEN tp.x_position + 1 ELSE tp.x_position

\* The column of the neighbour in a direction (the first switch of traverse_from_position)
new_c_of(tp, side_orientation) ==
   CASE side_orientation = "RIGHT" -> tp.x_position + 1
     [] side_orientation = "LEFT" -> tp.x_position - 1
     [] OTHER -> tp.x_position

\* The second switch of traverse_from_position
opposite_direction(side_orientation) ==
   CASE side_orientation = "UPPER" -> "LOWER"
     [] side_orientation = "LOWER" -> "UPPER"
     [] side_orientation = "LEFT" -> "RIGHT"
     [] side_orientation = "RIGHT" -> "LEFT"

\* can_visit without the test of the visited grid
can_visit_unmarked(result, p, v, rr, cc) ==
   /\ result # NullOpt
   /\ result.value = p

\* The condition under which traverse_from_position descends into the neighbour
can_visit(result, p, v, rr, cc) ==
   /\ result # NullOpt
   /\ result.value = p
   /\ ~At(v, rr, cc)

(* ---------------------------------------------------------------- pricing *)

\* Region::traverse_from_position as one call, from side i of tp on, under iteration
\* order ord: st holds traverse_positions and visited_garden_plots, tp is the caller's
\* local object, which the stored copy does not follow
RECURSIVE traverse_from_position(_, _, _, _, _, _)
traverse_from_position(g, p, ord, st, tp, i) ==
   IF i > 4 THEN st
   ELSE LET side_orientation == ord[i]
        IN  IF tp.side_status_map[side_orientation] # "AVAILABLE"
            THEN traverse_from_position(g, p, ord, st, tp, i + 1)
            ELSE LET new_r  == new_r_of(tp, side_orientation)
                     new_c  == new_c_of(tp, side_orientation)
                     result == get_traverse_position(new_r, new_c, g, p,
                                                     st.visited_garden_plots)
                     tp2    == tp_update_side_status(tp, side_orientation, "VISITED")
                 IN  IF can_visit(result, p, st.visited_garden_plots, new_r, new_c)
                     THEN LET new_tp == tp_update_side_status(result,
                                           opposite_direction(side_orientation), "VISITED")
                              st1 == [traverse_positions |->
                                         Append(st.traverse_positions, new_tp),
                                      visited_garden_plots |->
                                         MarkVisited(st.visited_garden_plots, new_r, new_c)]
                              st2 == traverse_from_position(g, p, ord, st1, new_tp, 1)
                          IN  traverse_from_position(g, p, ord, st2, tp2, i + 1)
                     ELSE traverse_from_position(g, p, ord, st, tp2, i + 1)

\* Region::get_region_plots as one call on a new Region of plant p seeded at (rr, cc),
\* under iteration order ord
get_region_plots(rr, cc, g, p, ord) ==
   LET fresh  == ResizedVisited(g)
       result == get_traverse_position(rr, cc, g, p, fresh)
   IN  IF At(fresh, rr, cc) \/ result = NullOpt
       THEN [traverse_positions |-> << >>, visited_garden_plots |-> fresh]
       ELSE traverse_from_position(g, p, ord,
               [traverse_positions |-> <<result>>,
                visited_garden_plots |-> MarkVisited(fresh, rr, cc)],
               result, 1)

\* IsPerimeterStatus that takes every status but VISITED for a fence edge
IsPerimeterStatus_not_visited(status) ==
   status # "VISITED"

\* IsPerimeterStatus without the edge of the garden
IsPerimeterStatus_adjacent_only(status) ==
   status = "ADJACENT_TO_OTHER_PLANT_TYPE"

\* The statuses that make an edge a fence edge
IsPerimeterStatus(status) ==
   status = "ADJACENT_TO_OTHER_PLANT_TYPE" \/ status = "OUT_OF_BOUNDS"

\* get_number_of_perimeter_sides counting every side that is not VISITED
get_number_of_perimeter_sides_not_visited(tp) ==
   Cardinality({ o \in DOMAIN tp.side_status_map : tp.side_status_map[o] # "VISITED" })

\* get_number_of_perimeter_sides counting only the sides on the edge of the garden
get_number_of_perimeter_sides_out_of_bounds(tp) ==
   Cardinality({ o \in DOMAIN tp.side_status_map : tp.side_status_map[o] = "OUT_OF_BOUNDS" })

\* TraversePosition::get_number_of_perimeter_sides
get_number_of_perimeter_sides(tp) ==
   Cardinality({ o \in DOMAIN tp.side_status_map : IsPerimeterStatus(tp.side_status_map[o]) })

\* Region::get_area
get_area(tps) == Len(tps)

RECURSIVE perimeter_of_first(_, _)
\* The value of `perimeter` after the first n iterations of the loop of get_perimeter
perimeter_of_first(tps, n) ==
   IF n = 0 THEN 0
   ELSE perimeter_of_first(tps, n - 1) + get_number_of_perimeter_sides(tps[n])

\* Region::get_perimeter
get_perimeter(tps) == perimeter_of_first(tps, Len(tps))

\* The coordinate along which a side of an orientation runs: y for LEFT and RIGHT,
\* x for UPPER and LOWER
Along(orientation, p) ==
   IF orientation = "LEFT" \/ orientation = "RIGHT" THEN p.y_position ELSE p.x_position

\* The coordinate that names the line a side of an orientation lies on
Across(orientation, p) ==
   IF orientation = "LEFT" \/ orientation = "RIGHT" THEN p.x_position ELSE p.y_position

\* search_positions.erase(std::remove_if(...)): the positions on the line of start_position
OnLine(orientation, start_position, search_positions) ==
   SelectSeq(search_positions,
             LAMBDA tp : Across(orientation, tp) = Across(orientation, start_position))

RECURSIVE InsertSorted_descending(_, _, _)
\* InsertSorted with the comparison turned round: the positions end in descending order
InsertSorted_descending(orientation, s, tp) ==
   IF s = << >> THEN <<tp>>
   ELSE IF Along(orientation, tp) > Along(orientation, Head(s))
        THEN <<tp>> \o s
        ELSE <<Head(s)>> \o InsertSorted_descending(orientation, Tail(s), tp)

RECURSIVE InsertSorted(_, _, _)
\* s, sorted along the orientation's axis, with tp put in its place
InsertSorted(orientation, s, tp) ==
   IF s = << >> THEN <<tp>>
   ELSE IF Along(orientation, tp) < Along(orientation, Head(s))
        THEN <<tp>> \o s
        ELSE <<Head(s)>> \o InsertSorted(orientation, Tail(s), tp)

RECURSIVE SortAlong(_, _)
\* std::sort of the positions by the coordinate along the orientation's axis
SortAlong(orientation, s) ==
   IF s = << >> THEN << >>
   ELSE InsertSorted(orientation, SortAlong(orientation, Tail(s)), Head(s))

RECURSIVE ScanMax_over_gaps(_, _, _)
\* ScanMax without the test that the position is the next one: max jumps to every
\* later position whose edge of the orientation is a fence edge
ScanMax_over_gaps(orientation, s, max) ==
   IF s = << >> THEN max
   ELSE IF /\ Along(orientation, Head(s)) > max
           /\ IsPerimeterStatus(Head(s).side_status_map[orientation])
        THEN ScanMax_over_gaps(orientation, Tail(s), Along(orientation, Head(s)))
        ELSE ScanMax_over_gaps(orientation, Tail(s), max)

RECURSIVE ScanMax_any_status(_, _, _)
\* ScanMax without the test of the side's status: max grows over every next position
ScanMax_any_status(orientation, s, max) ==
   IF s = << >> THEN max
   ELSE IF Along(orientation, Head(s)) = max + 1
        THEN ScanMax_any_status(orientation, Tail(s), Along(orientation, Head(s)))
        ELSE ScanMax_any_status(orientation, Tail(s), max)

RECURSIVE ScanMax(_, _, _)
\* The loop of get_end_position over the sorted positions: max grows by one at each
\* position at coordinate max + 1 whose edge of the orientation is a fence edge
ScanMax(orientation, s, max) ==
   IF s = << >> THEN max
   ELSE IF /\ Along(orientation, Head(s)) = max + 1
           /\ IsPerimeterStatus(Head(s).side_status_map[orientation])
        THEN ScanMax(orientation, Tail(s), Along(orientation, Head(s)))
        ELSE ScanMax(orientation, Tail(s), max)

\* RegionSide::get_end_position
get_end_position(orientation, start_position, search_positions) ==
   LET sorted == SortAlong(orientation, OnLine(orientation, start_position, search_positions))
       max    == ScanMax(orientation, sorted, Along(orientation, start_position))
   IN  IF orientation = "LEFT" \/ orientation = "RIGHT"
       THEN Position(start_position.x_position, max)
       ELSE Position(max, start_position.y_position)

\* RegionSide::RegionSide
RegionSide(orientation, start_position, search_positions) ==
   [orientation    |-> orientation,
    start_position |-> start_position,
    end_position   |-> get_end_position(orientation, start_position, search_positions)]

\* operator== without the test that the other side lies entirely after this one
RegionSideEq_one_sided(this, other) ==
   IF this.orientation # other.orientation THEN FALSE
   ELSE IF other.start_position = this.start_position /\ other.end_position = this.end_position
   THEN TRUE
   ELSE IF Across(this.orientation, other.start_position) # Across(this.orientation, this.start_position)
   THEN FALSE
   ELSE IF /\ Along(this.orientation, other.start_position) < Along(this.orientation, this.start_position)
           /\ Along(this.orientation, other.end_position) < Along(this.orientation, this.start_position)
   THEN FALSE
   ELSE TRUE

\* operator== that takes every two sides of one orientation on one line for equal
RegionSideEq_same_line(this, other) ==
   /\ this.orientation = other.orientation
   /\ Across(this.orientation, other.start_position) = Across(this.orientation, this.start_position)

\* operator== comparing the orientation and the two ends only
RegionSideEq_exact(this, other) ==
   /\ this.orientation = other.orientation
   /\ other.start_position = this.start_position
   /\ other.end_position = this.end_position

\* operator== without the test that both sides lie on the same line
RegionSideEq_any_line(this, other) ==
   IF this.orientation # other.orientation THEN FALSE
   ELSE IF other.start_position = this.start_position /\ other.end_position = this.end_position
   THEN TRUE
   ELSE IF /\ Along(this.orientation, other.start_position) < Along(this.orientation, this.start_position)
           /\ Along(this.orientation, other.end_position) < Along(this.orientation, this.start_position)
   THEN FALSE
   ELSE IF /\ Along(this.orientation, other.start_position) > Along(this.orientation, this.end_position)
           /\ Along(this.orientation, other.end_position) > Along(this.orientation, this.end_position)
   THEN FALSE
   ELSE TRUE

\* RegionSide::operator==
RegionSideEq(this, other) ==
   IF this.orientation # other.orientation THEN FALSE
   ELSE IF other.start_position = this.start_position /\ other.end_position = this.end_position
   THEN TRUE
   ELSE IF Across(this.orientation, other.start_position) # Across(this.orientation, this.start_position)
   THEN FALSE
   ELSE IF /\ Along(this.orientation, other.start_position) < Along(this.orientation, this.start_position)
           /\ Along(this.orientation, other.end_position) < Along(this.orientation, this.start_position)
   THEN FALSE
   ELSE IF /\ Along(this.orientation, other.start_position) > Along(this.orientation, this.end_position)
           /\ Along(this.orientation, other.end_position) > Along(this.orientation, this.end_position)
   THEN FALSE
   ELSE TRUE

\* IsNewSide that compares the candidate with the side kept last only
IsNewSide_last_only(rs, region_sides) ==
   region_sides = << >> \/ ~RegionSideEq(rs, region_sides[Len(region_sides)])

\* The test under which get_num_of_region_sides keeps a candidate side
IsNewSide(rs, region_sides) ==
   \A j \in 1..Len(region_sides) : ~RegionSideEq(rs, region_sides[j])

RECURSIVE region_sides_after(_, _, _)
\* region_sides after the first n (position, orientation) pairs of the two nested loops
\* of get_num_of_region_sides; ord is the iteration order of side_status_map
region_sides_after(tps, ord, n) ==
   IF n = 0 THEN << >>
   ELSE LET before      == region_sides_after(tps, ord, n - 1)
            position    == tps[((n - 1) \div 4) + 1]
            orientation == ord[((n - 1) % 4) + 1]
        IN  IF IsPerimeterStatus(position.side_status_map[orientation])
            THEN LET rs == RegionSide(orientation,
                                      Position(position.x_position, position.y_position), tps)
                 IN  IF IsNewSide(rs, before) THEN Append(before, rs) ELSE before
            ELSE before

\* Region::get_num_of_region_sides
get_num_of_region_sides(tps, ord) ==
   IF tps = << >> THEN 0 ELSE Len(region_sides_after(tps, ord, 4 * Len(tps)))

\* search_positions handed to RegionSide by reference: the caller's vector is left as
\* get_end_position filtered and sorted it
search_positions_of_caller_by_reference(orientation, start_position, search_positions) ==
   SortAlong(orientation, OnLine(orientation, start_position, search_positions))

\* The caller's vector after RegionSide(orientation, start_position, search_positions):
\* the constructor and get_end_position take search_positions by value, so erase and
\* sort work on a copy
search_positions_of_caller(orientation, start_position, search_positions) ==
   search_positions

RECURSIVE traverse_positions_after(_, _, _)
\* traverse_positions of the Region after the first n (position, orientation) pairs of
\* the two nested loops of get_num_of_region_sides
traverse_positions_after(tps, ord, n) ==
   IF n = 0 THEN tps
   ELSE LET before      == traverse_positions_after(tps, ord, n - 1)
            position    == tps[((n - 1) \div 4) + 1]
            orientation == ord[((n - 1) % 4) + 1]
        IN  IF IsPerimeterStatus(position.side_status_map[orientation])
            THEN search_positions_of_caller(orientation,
                    Position(position.x_position, position.y_position), before)
            ELSE before

\* The Region after Region::get_fence_pricing: get_area and get_perimeter only read
Region_after_pricing(region, with_sides, ord) ==
   IF region.traverse_positions # << >> /\ with_sides
   THEN [region EXCEPT !.traverse_positions =
            traverse_positions_after(@, ord, 4 * Len(@))]
   ELSE region

\* garden_groups after Gardener::get_fence_pricing has called get_fence_pricing on
\* every region of every group
Gardener_after_pricing(groups, with_sides, ord) ==
   [p \in DOMAIN groups |->
      [groups[p] EXCEPT !.regions =
         [k \in 1..Len(@) |-> Region_after_pricing(@[k], with_sides, ord)]]]

\* Region::get_fence_pricing
Region_get_fence_pricing(region, with_sides, ord) ==
   IF region.traverse_positions = << >> THEN 0
   ELSE IF with_sides
        THEN get_area(region.traverse_positions)
                * get_num_of_region_sides(region.traverse_positions, ord)
        ELSE get_area(region.traverse_positions) * get_perimeter(region.traverse_positions)

RECURSIVE group_sum_of_first(_, _, _, _)
\* The value of `sum` after the first n iterations of the loop of GardenGroup::get_fence_pricing
group_sum_of_first(regions, n, with_sides, ord) ==
   IF n = 0 THEN 0
   ELSE group_sum_of_first(regions, n - 1, with_sides, ord)
           + Region_get_fence_pricing(regions[n], with_sides, ord)

RECURSIVE group_measure_of_first(_, _, _, _)
\* The perimeters or sides of the first n regions of a group added up
group_measure_of_first(regions, n, with_sides, ord) ==
   IF n = 0 THEN 0
   ELSE group_measure_of_first(regions, n - 1, with_sides, ord)
           + (IF with_sides THEN get_num_of_region_sides(regions[n].traverse_positions, ord)
              ELSE get_perimeter(regions[n].traverse_positions))

RECURSIVE group_area_of_first(_, _)
\* The areas of the first n regions of a group added up
group_area_of_first(regions, n) ==
   IF n = 0 THEN 0
   ELSE group_area_of_first(regions, n - 1) + get_area(regions[n].traverse_positions)

\* get_fence_pricing of a group pricing all its regions as one: the sum of the areas
\* times the sum of the perimeters or sides
GardenGroup_get_fence_pricing_merged(garden_group, with_sides, ord) ==
   group_area_of_first(garden_group.regions, Len(garden_group.regions))
      * group_measure_of_first(garden_group.regions, Len(garden_group.regions), with_sides, ord)

\* GardenGroup::get_fence_pricing
GardenGroup_get_fence_pricing(garden_group, with_sides, ord) ==
   group_sum_of_first(garden_group.regions, Len(garden_group.regions), with_sides, ord)

RECURSIVE groups_sum(_, _, _, _)
\* The sum of Gardener::get_fence_pricing over the groups of the plants in `plants`
groups_sum(groups, plants, with_sides, ord) ==
   IF plants = {} THEN 0
   ELSE LET p == CHOOSE q \in plants : TRUE
        IN  GardenGroup_get_fence_pricing(groups[p], with_sides, ord)
               + groups_sum(groups, plants \ {p}, with_sides, ord)

\* Gardener::get_fence_pricing
Gardener_get_fence_pricing(groups, with_sides, ord) ==
   groups_sum(groups, DOMAIN groups, with_sides, ord)

(* ------------------------------------------------------------ the machine *)

\* The number of get_fence_pricing calls made on one Gardener
MaxQueries == 2

\* A Region as find_garden_groups stores it
Region(p, tps, v) ==
   [plant |-> p, traverse_positions |-> tps, visited_garden_plots |-> v]

\* GardenGroup::GardenGroup
GardenGroup(p) == [plant |-> p, regions |-> << >>]

\* GardenGroup::add_region
add_region(garden_group, region) ==
   [garden_group EXCEPT !.regions = Append(@, region)]

\* groups.contains / groups.insert of find_garden_groups
with_group(groups, plant_type) ==
   IF plant_type \in DOMAIN groups THEN groups
   ELSE [q \in DOMAIN groups \cup {plant_type} |->
           IF q = plant_type THEN GardenGroup(plant_type) ELSE groups[q]]

\* mark_plots leaving the visited grid of the Gardener as it is
mark_plots_none(v, tps, n) == v

RECURSIVE mark_plots(_, _, _)
\* The loop of find_garden_groups that marks the first n plots of a region as visited
mark_plots(v, tps, n) ==
   IF n = 0 THEN v
   ELSE MarkVisited(mark_plots(v, tps, n - 1), tps[n].y_position, tps[n].x_position)

\* AfterCell of a scan that goes down the columns: the next cell of the column, then
\* the head of the next column
AfterCell_column_major(g, rr, cc) ==
   IF rr + 1 < Rows(g) THEN [pc |-> "scan", r |-> rr + 1, c |-> cc]
   ELSE IF cc + 1 < Cols(g) THEN [pc |-> "scan", r |-> 0, c |-> cc + 1]
   ELSE [pc |-> "done", r |-> rr + 1, c |-> 0]

\* AfterCell that never leaves the row: after the last cell of a row the scan starts
\* the same row again
AfterCell_same_row(g, rr, cc) ==
   IF cc + 1 < Len(g[rr + 1]) THEN [pc |-> "scan", r |-> rr, c |-> cc + 1]
   ELSE [pc |-> "scan", r |-> rr, c |-> 0]

RECURSIVE LoopHead(_, _, _)
\* The heads of the two loops of find_garden_groups, entered with the counters at
\* (rr, cc): r < garden.size() and c < garden[r].size() are tested before every
\* iteration, so a row with no cell left is passed over (++r, c = 0) and the scan ends
\* after the last row
LoopHead(g, rr, cc) ==
   IF rr >= Rows(g) THEN [pc |-> "done", r |-> rr, c |-> 0]
   ELSE IF cc < Len(g[rr + 1]) THEN [pc |-> "scan", r |-> rr, c |-> cc]
   ELSE LoopHead(g, rr + 1, 0)

\* The head of the two loops of find_garden_groups after ++c at (rr, cc):
\* the next cell of the row-major scan, or the end of the scan
AfterCell(g, rr, cc) == LoopHead(g, rr, cc + 1)

\* The frame of traverse_from_position on top of the call stack
Top == stack[Len(stack)]

\* The state at the call Gardener(garden), before its member initialisers run
Init ==
   /\ garden \in Gardens
   /\ order \in IterationOrders
   /\ pc = "construct"
   /\ r = 0
   /\ c = 0
   /\ visited_garden_plots = << >>
   /\ garden_groups = << >>
   /\ plant = ""
   /\ traverse_positions = << >>
   /\ region_visited_garden_plots = << >>
   /\ stack = << >>
   /\ returned = << >>
   /\ out_of_range_read = FALSE

\* find_garden_groups up to the first iteration of its loops, on a garden with rows:
\* the visited grid is resized and the loop heads are tested from r = 0, c = 0; when
\* no row has a cell the function returns the empty map
FindGardenGroups ==
   /\ pc = "construct"
   /\ garden # << >>
   /\ visited_garden_plots' = ResizedVisited(garden)
   /\ pc' = LoopHead(garden, 0, 0).pc
   /\ r' = LoopHead(garden, 0, 0).r
   /\ c' = LoopHead(garden, 0, 0).c
   /\ UNCHANGED <<garden, order, garden_groups, plant, traverse_positions,
                  region_visited_garden_plots, stack, returned, out_of_range_read>>

\* find_garden_groups on a garden with no rows: garden[0].size() reads element 0 of an
\* empty vector, which is undefined; the build either faults there or goes on with
\* whatever it read, resizes the visited grid to zero rows and skips both loops
FindGardenGroupsEmpty ==
   /\ pc = "construct"
   /\ garden = << >>
   /\ out_of_range_read' = TRUE
   /\ pc' \in {"crashed", "done"}
   /\ UNCHANGED <<garden, order, r, c, visited_garden_plots, garden_groups, plant,
                  traverse_positions, region_visited_garden_plots, stack, returned>>

\* One iteration of the scan at a plot already visited: continue
ScanSkip ==
   /\ pc = "scan"
   /\ c < Cols(garden)
   /\ At(visited_garden_plots, r, c)
   /\ pc' = AfterCell(garden, r, c).pc
   /\ r' = AfterCell(garden, r, c).r
   /\ c' = AfterCell(garden, r, c).c
   /\ UNCHANGED <<garden, order, visited_garden_plots, garden_groups, plant,
                  traverse_positions, region_visited_garden_plots, stack, returned,
                  out_of_range_read>>

\* One iteration of the scan at an unvisited plot, up to the first call of
\* traverse_from_position: mark the plot, make sure its group exists, and begin
\* Region(garden[r][c], r, c, garden) with get_region_plots
ScanSeed ==
   /\ pc = "scan"
   /\ c < Cols(garden)
   /\ ~At(visited_garden_plots, r, c)
   /\ reads_in_range(r, c, garden)
   /\ LET p      == At(garden, r, c)
          fresh  == ResizedVisited(garden)
          result == get_traverse_position(r, c, garden, p, fresh)
      IN  /\ visited_garden_plots' = MarkVisited(visited_garden_plots, r, c)
          /\ garden_groups' = with_group(garden_groups, p)
          /\ plant' = p
          /\ IF ~At(fresh, r, c) /\ result # NullOpt
             THEN /\ traverse_positions' = <<result>>
                  /\ region_visited_garden_plots' = MarkVisited(fresh, r, c)
                  /\ stack' = <<[tp |-> result, i |-> 1]>>
             ELSE /\ traverse_positions' = << >>
                  /\ region_visited_garden_plots' = fresh
                  /\ stack' = << >>
          /\ pc' = "fill"
   /\ UNCHANGED <<garden, order, r, c, returned, out_of_range_read>>

\* One iteration of the loop of traverse_from_position over a side that is not AVAILABLE
TraverseSkip ==
   /\ pc = "fill"
   /\ stack # << >>
   /\ Top.i <= 4
   /\ Top.tp.side_status_map[order[Top.i]] # "AVAILABLE"
   /\ stack' = [stack EXCEPT ![Len(stack)].i = @ + 1]
   /\ UNCHANGED <<garden, order, pc, r, c, visited_garden_plots, garden_groups, plant,
                  traverse_positions, region_visited_garden_plots, returned,
                  out_of_range_read>>

\* One iteration of the loop of traverse_from_position over an AVAILABLE side whose
\* neighbour can be visited: the side becomes VISITED in tp, the neighbour is marked,
\* stored with its opposite side VISITED, and traversed (its call marks it again)
TraverseDescend ==
   /\ pc = "fill"
   /\ stack # << >>
   /\ Top.i <= 4
   /\ Top.tp.side_status_map[order[Top.i]] = "AVAILABLE"
   /\ reads_in_range(new_r_of(Top.tp, order[Top.i]), new_c_of(Top.tp, order[Top.i]), garden)
   /\ LET side_orientation == order[Top.i]
          new_r  == new_r_of(Top.tp, side_orientation)
          new_c  == new_c_of(Top.tp, side_orientation)
          result == get_traverse_position(new_r, new_c, garden, plant,
                                          region_visited_garden_plots)
          tp     == tp_update_side_status(Top.tp, side_orientation, "VISITED")
      IN  /\ can_visit(result, plant, region_visited_garden_plots, new_r, new_c)
          /\ LET new_tp == tp_update_side_status(result,
                                                 opposite_direction(side_orientation),
                                                 "VISITED")
             IN  /\ region_visited_garden_plots' =
                       MarkVisited(region_visited_garden_plots, new_r, new_c)
                 /\ traverse_positions' = Append(traverse_positions, new_tp)
                 /\ stack' = Append([stack EXCEPT ![Len(stack)] = [tp |-> tp, i |-> Top.i + 1]],
                                    [tp |-> new_tp, i |-> 1])
   /\ UNCHANGED <<garden, order, pc, r, c, visited_garden_plots, garden_groups, plant,
                  returned, out_of_range_read>>

\* One iteration of the loop of traverse_from_position over a side that was AVAILABLE
\* when tp was made and whose neighbour cannot be visited any more: the side becomes
\* VISITED in tp and nothing else changes
TraverseBlocked ==
   /\ pc = "fill"
   /\ stack # << >>
   /\ Top.i <= 4
   /\ Top.tp.side_status_map[order[Top.i]] = "AVAILABLE"
   /\ reads_in_range(new_r_of(Top.tp, order[Top.i]), new_c_of(Top.tp, order[Top.i]), garden)
   /\ LET side_orientation == order[Top.i]
          new_r  == new_r_of(Top.tp, side_orientation)
          new_c  == new_c_of(Top.tp, side_orientation)
          result == get_traverse_position(new_r, new_c, garden, plant,
                                          region_visited_garden_plots)
          tp     == tp_update_side_status(Top.tp, side_orientation, "VISITED")
      IN  /\ ~can_visit(result, plant, region_visited_garden_plots, new_r, new_c)
          /\ stack' = [stack EXCEPT ![Len(stack)] = [tp |-> tp, i |-> Top.i + 1]]
   /\ UNCHANGED <<garden, order, pc, r, c, visited_garden_plots, garden_groups, plant,
                  traverse_positions, region_visited_garden_plots, returned,
                  out_of_range_read>>

\* The scan reaches a plot of a row longer than the first one: visited_garden_plots[r][c]
\* names no element of the visited grid, whose rows have garden[0].size() elements.
\* The access is undefined: the build faults, or goes on with a value the model does
\* not follow
ScanOutOfRange ==
   /\ pc = "scan"
   /\ c >= Cols(garden)
   /\ out_of_range_read' = TRUE
   /\ pc' \in {"crashed", "undefined"}
   /\ UNCHANGED <<garden, order, r, c, visited_garden_plots, garden_groups, plant,
                  traverse_positions, region_visited_garden_plots, stack, returned>>

\* The scan reaches an unvisited plot and get_traverse_position or update_side_status
\* reads an element of the garden beyond the end of a row shorter than the first one
SeedOutOfRange ==
   /\ pc = "scan"
   /\ c < Cols(garden)
   /\ ~At(visited_garden_plots, r, c)
   /\ ~reads_in_range(r, c, garden)
   /\ out_of_range_read' = TRUE
   /\ pc' \in {"crashed", "undefined"}
   /\ UNCHANGED <<garden, order, r, c, visited_garden_plots, garden_groups, plant,
                  traverse_positions, region_visited_garden_plots, stack, returned>>

\* traverse_from_position looks at the neighbour through an AVAILABLE side and
\* get_traverse_position or update_side_status reads beyond the end of a row
TraverseOutOfRange ==
   /\ pc = "fill"
   /\ stack # << >>
   /\ Top.i <= 4
   /\ Top.tp.side_status_map[order[Top.i]] = "AVAILABLE"
   /\ ~reads_in_range(new_r_of(Top.tp, order[Top.i]), new_c_of(Top.tp, order[Top.i]), garden)
   /\ out_of_range_read' = TRUE
   /\ pc' \in {"crashed", "undefined"}
   /\ UNCHANGED <<garden, order, r, c, visited_garden_plots, garden_groups, plant,
                  traverse_positions, region_visited_garden_plots, stack, returned>>

\* A nested call of traverse_from_position returns to the loop of its caller
TraverseReturn ==
   /\ pc = "fill"
   /\ Len(stack) > 1
   /\ Top.i > 4
   /\ stack' = SubSeq(stack, 1, Len(stack) - 1)
   /\ UNCHANGED <<garden, order, pc, r, c, visited_garden_plots, garden_groups, plant,
                  traverse_positions, region_visited_garden_plots, returned,
                  out_of_range_read>>

\* get_region_plots returns and the Region is complete: find_garden_groups marks its
\* plots as visited, adds it to the group of its plant and goes on with the scan
RegionDone ==
   /\ pc = "fill"
   /\ stack = << >> \/ (Len(stack) = 1 /\ Top.i > 4)
   /\ LET plant_region == Region(plant, traverse_positions, region_visited_garden_plots)
      IN  /\ visited_garden_plots' =
                mark_plots(visited_garden_plots, plant_region.traverse_positions,
                           Len(plant_region.traverse_positions))
          /\ garden_groups' = [garden_groups EXCEPT ![plant] = add_region(@, plant_region)]
   /\ plant' = ""
   /\ traverse_positions' = << >>
   /\ region_visited_garden_plots' = << >>
   /\ stack' = << >>
   /\ pc' = AfterCell(garden, r, c).pc
   /\ r' = AfterCell(garden, r, c).r
   /\ c' = AfterCell(garden, r, c).c
   /\ UNCHANGED <<garden, order, returned, out_of_range_read>>

\* A call of Gardener::get_fence_pricing on the constructed Gardener
GetFencePricing(with_sides) ==
   /\ pc = "done"
   /\ Len(returned) < MaxQueries
   /\ returned' = Append(returned,
                         [with_sides |-> with_sides,
                          value |-> Gardener_get_fence_pricing(garden_groups, with_sides, order)])
   /\ garden_groups' = Gardener_after_pricing(garden_groups, with_sides, order)
   /\ UNCHANGED <<garden, order, pc, r, c, visited_garden_plots, plant,
                  traverse_positions, region_visited_garden_plots, stack,
                  out_of_range_read>>

Next ==
   \/ FindGardenGroups
   \/ FindGardenGroupsEmpty
   \/ ScanSkip
   \/ ScanSeed
   \/ TraverseSkip
   \/ TraverseDescend
   \/ TraverseBlocked
   \/ TraverseReturn
   \/ RegionDone
   \/ ScanOutOfRange
   \/ SeedOutOfRange
   \/ TraverseOutOfRange
   \/ \E with_sides \in BOOLEAN : GetFencePricing(with_sides)

Spec == Init /\ [][Next]_vars

(* ------------------------------------------- what the claims speak about *)

\* The cells (x, y) of a garden
Cells(g) == IF g = << >> THEN {} ELSE (0..(Cols(g) - 1)) \X (0..(Rows(g) - 1))

\* The label of a cell
LabelOf(g, cell) == At(g, cell[2], cell[1])

\* The cell next to a cell in a direction, inside the garden or not
Neighbour(cell, o) ==
   CASE o = "UPPER" -> <<cell[1], cell[2] - 1>>
     [] o = "LOWER" -> <<cell[1], cell[2] + 1>>
     [] o = "LEFT"  -> <<cell[1] - 1, cell[2]>>
     [] o = "RIGHT" -> <<cell[1] + 1, cell[2]>>

RECURSIVE Grow(_, _, _)
\* The cells of `within` reachable from S by 4-neighbour steps through `within`
Grow(g, within, S) ==
   LET more == { q \in { Neighbour(p, o) : p \in S, o \in Orientations } : q \in within }
   IN  IF more \subseteq S THEN S ELSE Grow(g, within, S \cup more)

\* The maximal 4-connected set of cells carrying the label of `cell`
Component(g, cell) ==
   Grow(g, { q \in Cells(g) : LabelOf(g, q) = LabelOf(g, cell) }, {cell})

RECURSIVE ComponentsOf(_, _)
\* The components of the cells of `rest`, a union of components
ComponentsOf(g, rest) ==
   IF rest = {} THEN {}
   ELSE LET S == Component(g, CHOOSE cell \in rest : TRUE)
        IN  {S} \cup ComponentsOf(g, rest \ S)

\* The regions of a garden: its maximal 4-connected sets of cells of one label
Components(g) == ComponentsOf(g, Cells(g))

\* A fence edge of a set S of cells of one label: the neighbour is outside the garden
\* or carries another label
IsFenceEdge(g, S, cell, o) ==
   \/ Neighbour(cell, o) \notin Cells(g)
   \/ LabelOf(g, Neighbour(cell, o)) # LabelOf(g, cell)

\* The fence edges of S
FenceEdges(g, S) ==
   { e \in S \X Orientations : IsFenceEdge(g, S, e[1], e[2]) }

\* The cell before a cell on the line a side of orientation o runs along
Before(cell, o) ==
   IF o = "LEFT" \/ o = "RIGHT" THEN <<cell[1], cell[2] - 1>> ELSE <<cell[1] - 1, cell[2]>>

\* The maximal straight runs of contiguous fence edges of one orientation on one line,
\* each named by its first edge
Runs(g, S) ==
   { e \in FenceEdges(g, S) : <<Before(e[1], e[2]), e[2]>> \notin FenceEdges(g, S) }

RECURSIVE SumOver(_, _, _, _)
\* The sum over the sets S in `sets` of |S| * |Runs(g, S)| or |S| * |FenceEdges(g, S)|
SumOver(g, sets, with_sides, acc) ==
   IF sets = {} THEN acc
   ELSE LET S == CHOOSE T \in sets : TRUE
        IN  SumOver(g, sets \ {S}, with_sides,
                    acc + Cardinality(S) * (IF with_sides THEN Cardinality(Runs(g, S))
                                            ELSE Cardinality(FenceEdges(g, S))))

\* The total price of a garden by its definition
ExpectedPrice(g, with_sides) == SumOver(g, Components(g), with_sides, 0)

\* The regions the Gardener holds, each named by its plant and its place in the group
RegionIds ==
   { id \in (DOMAIN garden_groups) \X (1..Cardinality(Cells(garden))) :
        id[2] <= Len(garden_groups[id[1]].regions) }

\* The region of a name
RegionAt(id) == garden_groups[id[1]].regions[id[2]]

\* The cells stored in a list of TraversePositions
CellsOf(tps) == { <<tps[k].x_position, tps[k].y_position>> : k \in 1..Len(tps) }

\* The seed of a region: the cell get_region_plots was called on
SeedOf(region) ==
   <<region.traverse_positions[1].x_position, region.traverse_positions[1].y_position>>

\* The Gardener is constructed on a garden with rows
Constructed == pc = "done" /\ garden # << >>

\* The constructor of the Gardener has returned and no price has been asked yet; the
\* pricing calls leave garden_groups as it is in this state
JustConstructed == Constructed /\ returned = << >>

\* The calls of get_fence_pricing that have returned, by mode
Calls(with_sides) == { k \in 1..Len(returned) : returned[k].with_sides = with_sides }

\* The call of get_fence_pricing that returned last, if it was of the mode; every
\* call is the last one in the state it returns to
LastCall(with_sides) ==
   { k \in {Len(returned)} : k > 0 /\ returned[k].with_sides = with_sides }

RECURSIVE SumAreas(_)
\* The sum of the areas of the regions named by ids
SumAreas(ids) ==
   IF ids = {} THEN 0
   ELSE LET id == CHOOSE i \in ids : TRUE
        IN  get_area(RegionAt(id).traverse_positions) + SumAreas(ids \ {id})

(* ------------------------------------------------------------ the claims *)

\* C1: after the Gardener is constructed on a non-empty rectangular garden, every cell
\* belongs to exactly one Region, and the areas of the regions add up to rows * cols.
C1_RegionsPartitionTheGarden ==
   JustConstructed =>
      /\ \A cell \in Cells(garden) :
            Cardinality({ id \in RegionIds : cell \in CellsOf(RegionAt(id).traverse_positions) }) = 1
      /\ SumAreas(RegionIds) = Rows(garden) * Cols(garden)

\* Witness of C1: a constructed garden of several rows and columns with several regions,
\* one of them of more than two cells
C1_Witness ==
   /\ Constructed
   /\ Rows(garden) > 1 /\ Cols(garden) > 1
   /\ Cardinality(RegionIds) > 1
   /\ \E id \in RegionIds : get_area(RegionAt(id).traverse_positions) > 2

\* C2: the Region built from a seed holds exactly the cells reachable from the seed by
\* 4-neighbour steps through cells of the seed's label: every stored cell carries the
\* seed's label, is connected to the seed inside the region, and no cell next to a
\* region cell with the same label is left out.
C2_RegionIsTheSeedsComponent ==
   JustConstructed =>
      \A id \in RegionIds :
         LET region == RegionAt(id)
             S      == CellsOf(region.traverse_positions)
             seed   == SeedOf(region)
         IN  /\ region.plant = LabelOf(garden, seed)
             /\ \A k \in 1..Len(region.traverse_positions) :
                   /\ region.traverse_positions[k].value = LabelOf(garden, seed)
                   /\ LabelOf(garden, <<region.traverse_positions[k].x_position,
                                         region.traverse_positions[k].y_position>>)
                         = LabelOf(garden, seed)
             /\ Grow(garden, S, {seed}) = S
             /\ \A p \in S : \A o \in Orientations :
                   (Neighbour(p, o) \in Cells(garden)
                      /\ LabelOf(garden, Neighbour(p, o)) = LabelOf(garden, seed))
                   => Neighbour(p, o) \in S
             /\ S = Component(garden, seed)

\* Witness of C2: a constructed region that needs a step in each of two opposite
\* directions to be reached from its seed, beside another region of the same garden
C2_Witness ==
   /\ Constructed
   /\ \E id \in RegionIds :
         LET S == CellsOf(RegionAt(id).traverse_positions)
             seed == SeedOf(RegionAt(id))
         IN  /\ \E p \in S : p[1] < seed[1]
             /\ \E p \in S : p[1] > seed[1]
             /\ \E p \in S : p[2] > seed[2]
   /\ Cardinality(RegionIds) > 1

\* The number of fence edges (perimeter) or of runs of fence edges (sides) of a set of cells
Measure(g, S, with_sides) ==
   IF with_sides THEN Cardinality(Runs(g, S)) ELSE Cardinality(FenceEdges(g, S))

\* The regions stored under the plants of `plants`
IdsOf(plants) == { id \in RegionIds : id[1] \in plants }

\* The regions of a plant
RegionsOfPlant(p) == garden_groups[p].regions

\* C3: get_fence_pricing(false) is the sum over the regions of area * perimeter, the
\* area being the number of cells of the region and the perimeter the number of its
\* (cell, direction) pairs whose neighbour is outside the garden or of another label;
\* 140 for the 4x4 garden and 1930 for the 10x10 R garden.
C3_PerimeterPricing ==
   Constructed =>
      /\ JustConstructed => \A id \in RegionIds :
            LET tps == RegionAt(id).traverse_positions
            IN  /\ get_area(tps) = Cardinality(CellsOf(tps))
                /\ get_perimeter(tps) = Cardinality(FenceEdges(garden, CellsOf(tps)))
      /\ \A k \in LastCall(FALSE) :
            /\ returned[k].value = ExpectedPrice(garden, FALSE)
            /\ garden = GardenA => returned[k].value = 140
            /\ garden = GardenR => returned[k].value = 1930

\* Witness of C3: get_fence_pricing(false) has returned 1930 on the R garden
C3_Witness ==
   /\ garden = GardenR
   /\ \E k \in Calls(FALSE) : returned[k].value = 1930

\* C4: get_fence_pricing(true) is the sum over the regions of area * sides, the sides
\* being the maximal straight runs of contiguous fence edges of one orientation on one
\* line; 80 for the 4x4 garden and 1206 for the 10x10 R garden.
C4_SidesPricing ==
   Constructed =>
      /\ JustConstructed => \A id \in RegionIds :
            LET tps == RegionAt(id).traverse_positions
            IN  get_num_of_region_sides(tps, order) = Cardinality(Runs(garden, CellsOf(tps)))
      /\ \A k \in LastCall(TRUE) :
            /\ returned[k].value = ExpectedPrice(garden, TRUE)
            /\ garden = GardenA => returned[k].value = 80
            /\ garden = GardenR => returned[k].value = 1206

\* Witness of C4: get_fence_pricing(true) has returned on a small garden with a region
\* that has more than four sides
C4_Witness ==
   /\ Constructed
   /\ garden \in SmallGardens
   /\ Calls(TRUE) # {}
   /\ \E id \in RegionIds :
         get_num_of_region_sides(RegionAt(id).traverse_positions, order) > 4

\* C5: on the 5x5 E garden get_fence_pricing(true) returns 236: the E region has area
\* 17 and 12 sides, each of the two X bars area 4 and 4 sides.
C5_EGardenSides ==
   (pc = "done" /\ garden = GardenE) =>
      /\ returned = << >> =>
            /\ DOMAIN garden_groups = {"E", "X"}
            /\ Len(RegionsOfPlant("E")) = 1
            /\ get_area(RegionsOfPlant("E")[1].traverse_positions) = 17
            /\ get_num_of_region_sides(RegionsOfPlant("E")[1].traverse_positions, order) = 12
            /\ Len(RegionsOfPlant("X")) = 2
            /\ \A n \in 1..Len(RegionsOfPlant("X")) :
                  /\ get_area(RegionsOfPlant("X")[n].traverse_positions) = 4
                  /\ get_num_of_region_sides(RegionsOfPlant("X")[n].traverse_positions, order) = 4
      /\ \A k \in LastCall(TRUE) : returned[k].value = 236

\* Witness of C5: get_fence_pricing(true) has returned on the E garden
C5_Witness == garden = GardenE /\ Calls(TRUE) # {}

\* C6: on the 6x6 A/B garden get_fence_pricing(true) returns 368: the two 2x2 B blocks
\* that touch at a corner are two regions of 4 sides each and the A region around them
\* has area 28 and 12 sides.
C6_ABGardenSides ==
   (pc = "done" /\ garden = GardenAB) =>
      /\ returned = << >> =>
            /\ DOMAIN garden_groups = {"A", "B"}
            /\ Len(RegionsOfPlant("B")) = 2
            /\ \A n \in 1..Len(RegionsOfPlant("B")) :
                  /\ get_area(RegionsOfPlant("B")[n].traverse_positions) = 4
                  /\ get_num_of_region_sides(RegionsOfPlant("B")[n].traverse_positions, order) = 4
            /\ Len(RegionsOfPlant("A")) = 1
            /\ get_area(RegionsOfPlant("A")[1].traverse_positions) = 28
            /\ get_num_of_region_sides(RegionsOfPlant("A")[1].traverse_positions, order) = 12
      /\ \A k \in LastCall(TRUE) : returned[k].value = 368

\* Witness of C6: get_fence_pricing(true) has returned on the A/B garden
C6_Witness == garden = GardenAB /\ Calls(TRUE) # {}

\* C7: on the 5x5 O/X garden get_fence_pricing(false) returns 772: the O region has
\* area 21 and perimeter 36, the edges of its four holes included, and each X cell is
\* a region of its own with perimeter 4.
C7_XGardenPerimeter ==
   (pc = "done" /\ garden = GardenX) =>
      /\ returned = << >> =>
            /\ DOMAIN garden_groups = {"O", "X"}
            /\ Len(RegionsOfPlant("O")) = 1
            /\ get_area(RegionsOfPlant("O")[1].traverse_positions) = 21
            /\ get_perimeter(RegionsOfPlant("O")[1].traverse_positions) = 36
            /\ Len(RegionsOfPlant("X")) = 4
            /\ \A n \in 1..Len(RegionsOfPlant("X")) :
                  /\ get_area(RegionsOfPlant("X")[n].traverse_positions) = 1
                  /\ get_perimeter(RegionsOfPlant("X")[n].traverse_positions) = 4
      /\ \A k \in LastCall(FALSE) : returned[k].value = 772

\* Witness of C7: get_fence_pricing(false) has returned on the O/X garden
C7_Witness == garden = GardenX /\ Calls(FALSE) # {}

\* C8: on the 5x5 O/X garden get_fence_pricing(true) returns 436: the O region has 20
\* sides, 4 outer ones and 4 for each of its four holes, and each X cell has 4 sides.
C8_XGardenSides ==
   (pc = "done" /\ garden = GardenX) =>
      /\ returned = << >> =>
            /\ Len(RegionsOfPlant("O")) = 1
            /\ get_num_of_region_sides(RegionsOfPlant("O")[1].traverse_positions, order) = 20
            /\ Cardinality({ e \in Runs(garden, CellsOf(RegionsOfPlant("O")[1].traverse_positions)) :
                                Neighbour(e[1], e[2]) \notin Cells(garden) }) = 4
            /\ \A n \in 1..Len(RegionsOfPlant("X")) :
                  get_num_of_region_sides(RegionsOfPlant("X")[n].traverse_positions, order) = 4
      /\ \A k \in LastCall(TRUE) : returned[k].value = 436

\* Witness of C8: get_fence_pricing(true) has returned on the O/X garden
C8_Witness == garden = GardenX /\ Calls(TRUE) # {}

\* C9: on a garden with zero rows the construction yields no regions and both pricing
\* modes return 0, and no row of the garden is read.
C9_EmptyGardenPricesZero ==
   (garden = << >> /\ pc # "construct") =>
      /\ pc = "done"
      /\ ~out_of_range_read
      /\ RegionIds = {}
      /\ \A k \in 1..Len(returned) : returned[k].value = 0

RECURSIVE SumPerRegion(_, _)
\* The sum over the regions named by ids of area * perimeter or area * sides, by cells
SumPerRegion(ids, with_sides) ==
   IF ids = {} THEN 0
   ELSE LET id == CHOOSE i \in ids : TRUE
            S  == CellsOf(RegionAt(id).traverse_positions)
        IN  Cardinality(S) * Measure(garden, S, with_sides)
               + SumPerRegion(ids \ {id}, with_sides)

RECURSIVE SumMeasure(_, _)
\* The sum of the perimeters or sides of the regions named by ids, by cells
SumMeasure(ids, with_sides) ==
   IF ids = {} THEN 0
   ELSE LET id == CHOOSE i \in ids : TRUE
        IN  Measure(garden, CellsOf(RegionAt(id).traverse_positions), with_sides)
               + SumMeasure(ids \ {id}, with_sides)

RECURSIVE SumMerged(_, _)
\* The sum over the plants of (sum of areas) * (sum of perimeters or sides)
SumMerged(plants, with_sides) ==
   IF plants = {} THEN 0
   ELSE LET p == CHOOSE q \in plants : TRUE
        IN  SumAreas(IdsOf({p})) * SumMeasure(IdsOf({p}), with_sides)
               + SumMerged(plants \ {p}, with_sides)

\* C10: regions of one label that are not connected are priced one by one: the total
\* is the sum over the single regions of area * (perimeter or sides), whatever their
\* grouping by label, and is not the sum over the labels of (sum of areas) * (sum of
\* perimeters or sides), which is larger as soon as a label has two regions.
C10_RegionsPricedSeparately ==
   Constructed =>
      \A k \in LastCall(TRUE) \cup LastCall(FALSE) :
         /\ returned[k].value = SumPerRegion(RegionIds, returned[k].with_sides)
         /\ (\E p \in DOMAIN garden_groups : Len(RegionsOfPlant(p)) > 1)
               => returned[k].value < SumMerged(DOMAIN garden_groups, returned[k].with_sides)

\* Witness of C10: both prices have returned on a garden where a label has two regions
C10_Witness ==
   /\ Constructed
   /\ \E p \in DOMAIN garden_groups : Len(RegionsOfPlant(p)) > 1
   /\ Calls(TRUE) # {}
   /\ Calls(FALSE) # {}

\* C11: the perimeter get_perimeter computes for a region of a rectangular garden is even.
C11_PerimeterIsEven ==
   JustConstructed =>
      \A id \in RegionIds : get_perimeter(RegionAt(id).traverse_positions) % 2 = 0

\* Witness of C11: a constructed region of three cells in a row on the edge of the
\* garden, beside another region
C11_Witness ==
   /\ JustConstructed
   /\ Cardinality(RegionIds) > 1
   /\ \E id \in RegionIds :
         LET S == CellsOf(RegionAt(id).traverse_positions)
         IN  /\ Cardinality(S) = 3
             /\ \A p \in S : p[2] = 0

\* C12: the perimeter of a region is at least 4, and 4 exactly when the region has one
\* cell; the one stored cell of such a region has OUT_OF_BOUNDS or
\* ADJACENT_TO_OTHER_PLANT_TYPE on all four sides.
C12_PerimeterAtLeastFour ==
   JustConstructed =>
      \A id \in RegionIds :
         LET tps == RegionAt(id).traverse_positions
         IN  /\ get_perimeter(tps) >= 4
             /\ get_perimeter(tps) = 4 <=> get_area(tps) = 1
             /\ get_area(tps) = 1 =>
                   \A o \in Orientations :
                      tps[1].side_status_map[o] \in {"OUT_OF_BOUNDS", "ADJACENT_TO_OTHER_PLANT_TYPE"}

\* Witness of C12: a constructed garden with a region of one cell inside the garden's
\* first row and a region of several cells
C12_Witness ==
   /\ JustConstructed
   /\ \E id \in RegionIds :
         /\ get_area(RegionAt(id).traverse_positions) = 1
         /\ RegionAt(id).traverse_positions[1].side_status_map["LEFT"] = "ADJACENT_TO_OTHER_PLANT_TYPE"
         /\ RegionAt(id).traverse_positions[1].side_status_map["UPPER"] = "OUT_OF_BOUNDS"
   /\ \E id \in RegionIds : get_area(RegionAt(id).traverse_positions) > 1

\* C13: the number of sides get_num_of_region_sides computes for a region of a
\* rectangular garden is even and at least 4.
C13_SidesEvenAtLeastFour ==
   JustConstructed =>
      \A id \in RegionIds :
         LET sides == get_num_of_region_sides(RegionAt(id).traverse_positions, order)
         IN  sides % 2 = 0 /\ sides >= 4

\* Witness of C13: a constructed region with two runs of fence edges of one orientation
\* on one line
C13_Witness ==
   /\ JustConstructed
   /\ \E id \in RegionIds :
         LET runs == Runs(garden, CellsOf(RegionAt(id).traverse_positions))
         IN  \E e1, e2 \in runs :
                /\ e1 # e2
                /\ e1[2] = e2[2]
                /\ IF e1[2] \in {"LEFT", "RIGHT"} THEN e1[1][1] = e2[1][1]
                   ELSE e1[1][2] = e2[1][2]

\* The cells of S fill a rectangle
IsFilledRectangle(S) ==
   /\ S # {}
   /\ \A p, q \in S : <<p[1], q[2]>> \in S

\* C14: a region that fills a w x h rectangle has exactly 4 sides, whatever w and h:
\* a straight run of fence edges is one side whatever its length.
C14_RectangleHasFourSides ==
   JustConstructed =>
      \A id \in RegionIds :
         IsFilledRectangle(CellsOf(RegionAt(id).traverse_positions))
            => get_num_of_region_sides(RegionAt(id).traverse_positions, order) = 4

\* Witness of C14: a constructed rectangular region more than one cell wide and high
\* beside another region
C14_Witness ==
   /\ JustConstructed
   /\ Cardinality(RegionIds) > 1
   /\ \E id \in RegionIds :
         LET S == CellsOf(RegionAt(id).traverse_positions)
         IN  /\ IsFilledRectangle(S)
             /\ \E p, q \in S : p[1] # q[1] /\ p[2] # q[2]

\* The stored traverse position of cell in tps
StoredAt(tps, cell) ==
   CHOOSE tp \in { tps[k] : k \in 1..Len(tps) } : <<tp.x_position, tp.y_position>> = cell

\* C15: region building gives the same result under every iteration order of
\* side_status_map: the region built from the same seed under any other order has the
\* same cells and, for every cell, the same four statuses as the stored region.
C15_OrderIndependent ==
   JustConstructed =>
      \A id \in RegionIds :
         LET region == RegionAt(id)
             tps    == region.traverse_positions
         IN  \A ord \in IterationOrders :
                LET other == get_region_plots(SeedOf(region)[2], SeedOf(region)[1], garden,
                                              region.plant, ord).traverse_positions
                IN  /\ CellsOf(other) = CellsOf(tps)
                    /\ \A cell \in CellsOf(tps) :
                          StoredAt(other, cell).side_status_map
                             = StoredAt(tps, cell).side_status_map

\* C16: in a finished region every edge between two cells of the region is stored
\* VISITED on both cells, and no stored cell keeps an AVAILABLE edge.
C16_SharedEdgesStoredVisited ==
   JustConstructed =>
      \A id \in RegionIds :
         LET tps == RegionAt(id).traverse_positions
         IN  \A k \in 1..Len(tps) : \A o \in Orientations :
                /\ Neighbour(<<tps[k].x_position, tps[k].y_position>>, o) \in CellsOf(tps)
                      => tps[k].side_status_map[o] = "VISITED"
                /\ tps[k].side_status_map[o] # "AVAILABLE"

\* C17: a call of get_fence_pricing leaves every region's cell list and every cell's
\* statuses as they were, and returns the value the earlier calls of its mode returned.
C17_PricingLeavesRegionsUnchanged ==
   [][Len(returned') > Len(returned) =>
         /\ garden_groups' = garden_groups
         /\ \A k \in 1..Len(returned) :
               returned[k].with_sides = returned'[Len(returned')].with_sides
                  => returned[k].value = returned'[Len(returned')].value]_vars

\* Witness of C17: two calls with sides have returned on a garden with a region of
\* several cells that are not all on one line
C17_Witness ==
   /\ Constructed
   /\ Cardinality(Calls(TRUE)) > 1
   /\ \E id \in RegionIds :
         \E p, q \in CellsOf(RegionAt(id).traverse_positions) : p[1] # q[1] /\ p[2] # q[2]

\* C18: a garden whose rows are not all of one length is rejected before any element
\* outside a row of the garden or of a visited grid is read or written.
C18_RaggedGridRejected ==
   ~Rectangular(garden) => ~out_of_range_read

\* The status the priority order gives the edge of cell towards o, for a region of
\* plant p whose visited grid is v
StatusByPriority(g, p, v, cell, o) ==
   IF Neighbour(cell, o) \notin Cells(g) THEN "OUT_OF_BOUNDS"
   ELSE IF LabelOf(g, Neighbour(cell, o)) # p THEN "ADJACENT_TO_OTHER_PLANT_TYPE"
   ELSE IF LabelOf(v, Neighbour(cell, o)) THEN "VISITED"
   ELSE "AVAILABLE"

\* C19: the cell a step of region building enters is stored with the status the
\* priority order OUT_OF_BOUNDS, ADJACENT_TO_OTHER_PLANT_TYPE, VISITED, AVAILABLE gives
\* each of its four edges under the visited grid of the moment it is entered, and in
\* every stored cell an edge is OUT_OF_BOUNDS exactly when its neighbour is outside the
\* garden and ADJACENT_TO_OTHER_PLANT_TYPE exactly when its neighbour is inside with
\* another label.
C19_StatusPriority ==
   [][(/\ Rectangular(garden)
       /\ pc' = "fill"
       /\ Len(traverse_positions') = Len(traverse_positions) + 1) =>
         LET tps     == traverse_positions'
             new     == tps[Len(tps)]
             entered == IF pc = "scan" THEN ResizedVisited(garden)
                        ELSE region_visited_garden_plots
         IN  /\ \A o \in Orientations :
                   new.side_status_map[o] =
                      StatusByPriority(garden, plant', entered,
                                       <<new.x_position, new.y_position>>, o)
             /\ \A k \in 1..Len(tps) : \A o \in Orientations :
                   LET n == Neighbour(<<tps[k].x_position, tps[k].y_position>>, o)
                   IN  /\ tps[k].side_status_map[o] = "OUT_OF_BOUNDS"
                             <=> n \notin Cells(garden)
                       /\ tps[k].side_status_map[o] = "ADJACENT_TO_OTHER_PLANT_TYPE"
                             <=> (n \in Cells(garden) /\ LabelOf(garden, n) # plant')]_vars

\* Witness of C19: a cell is being stored with four different statuses
C19_Witness ==
   /\ pc = "fill"
   /\ Rectangular(garden)
   /\ Len(traverse_positions) > 1
   /\ stack # << >>
   /\ Top.i = 1
   /\ Top.tp = traverse_positions[Len(traverse_positions)]
   /\ \A s \in SideStatus : \E o \in Orientations : Top.tp.side_status_map[o] = s

\* The sides of the frames on the call stack that traverse_from_position has still to
\* look at and that are AVAILABLE in the frame's tp
PendingAvailable ==
   { <<k, i>> \in (1..Len(stack)) \X (1..4) :
        /\ i >= stack[k].i
        /\ stack[k].tp.side_status_map[order[i]] = "AVAILABLE" }

\* C20: on a rectangular garden with rows, no element outside the garden or a visited
\* grid is read or written while the garden is partitioned: the neighbour through
\* every AVAILABLE side that the traversal has still to look at is inside the garden
\* and has the region's plant, and get_traverse_position has a value for it.
C20_NoIndexOutsideGrid ==
   (garden # << >> /\ Rectangular(garden)) =>
      /\ ~out_of_range_read
      /\ pc \notin {"crashed", "undefined"}
      /\ pc = "fill" =>
            \A f \in PendingAvailable :
               LET tp    == stack[f[1]].tp
                   new_r == new_r_of(tp, order[f[2]])
                   new_c == new_c_of(tp, order[f[2]])
               IN  /\ <<new_c, new_r>> \in Cells(garden)
                   /\ LabelOf(garden, <<new_c, new_r>>) = plant
                   /\ get_traverse_position(new_r, new_c, garden, plant,
                                            region_visited_garden_plots) # NullOpt

\* Witness of C20: the traversal is about to look through an AVAILABLE side of a cell
\* on the edge of a rectangular garden of several rows, with another plant next to it
C20_Witness ==
   /\ garden # << >>
   /\ Rectangular(garden)
   /\ Rows(garden) > 1
   /\ pc = "fill"
   /\ stack # << >>
   /\ Top.i <= 4
   /\ Top.tp.side_status_map[order[Top.i]] = "AVAILABLE"
   /\ \E o \in Orientations : Top.tp.side_status_map[o] = "OUT_OF_BOUNDS"
   /\ \E o \in Orientations : Top.tp.side_status_map[o] = "ADJACENT_TO_OTHER_PLANT_TYPE"

\* The cells marked in a visited grid of the garden
Marked(v) == { cell \in Cells(garden) : LabelOf(v, cell) }

\* C21: at every step of the flood fill of a region no coordinate is twice in
\* traverse_positions, and the cells stored are the cells marked in the region's
\* visited grid, so the area counts each cell once; the same holds of every region
\* of the constructed Gardener.
C21_NoCellStoredTwice ==
   /\ (pc = "fill" /\ Rectangular(garden)) =>
         /\ \A j, k \in 1..Len(traverse_positions) :
               (/\ traverse_positions[j].x_position = traverse_positions[k].x_position
                /\ traverse_positions[j].y_position = traverse_positions[k].y_position)
                  => j = k
         /\ CellsOf(traverse_positions) = Marked(region_visited_garden_plots)
         /\ get_area(traverse_positions) = Cardinality(CellsOf(traverse_positions))
   /\ JustConstructed =>
         \A id \in RegionIds :
            get_area(RegionAt(id).traverse_positions)
               = Cardinality(CellsOf(RegionAt(id).traverse_positions))

\* Witness of C21: the traversal is about to look through a side that was AVAILABLE
\* when its cell was stored and whose neighbour has been stored since from another cell
C21_Witness ==
   /\ pc = "fill"
   /\ Rectangular(garden)
   /\ stack # << >>
   /\ Top.i <= 4
   /\ Top.tp.side_status_map[order[Top.i]] = "AVAILABLE"
   /\ <<new_c_of(Top.tp, order[Top.i]), new_r_of(Top.tp, order[Top.i])>>
         \in CellsOf(traverse_positions)

\* The steps of the constructor Gardener(garden): find_garden_groups, the Regions it
\* builds and their flood fills
Construction ==
   \/ FindGardenGroups
   \/ FindGardenGroupsEmpty
   \/ ScanSkip
   \/ ScanSeed
   \/ TraverseSkip
   \/ TraverseDescend
   \/ TraverseBlocked
   \/ TraverseReturn
   \/ RegionDone
   \/ ScanOutOfRange
   \/ SeedOutOfRange
   \/ TraverseOutOfRange

\* The constructor runs on one thread and goes on while it has a step to take; the
\* pricing calls are the caller's to make or not
FairSpec == Spec /\ WF_vars(Construction)

\* C22: on a rectangular garden with rows the flood fill of every region comes to its
\* end and the scan of find_garden_groups comes to the end of the last row.
C22_PartitionCompletes ==
   /\ (pc = "construct" /\ garden # << >> /\ Rectangular(garden))
         ~> (pc = "done" /\ r = Rows(garden))
   /\ (pc = "fill" /\ Rectangular(garden)) ~> (pc \in {"scan", "done"})

\* Witness of C22: the constructor has returned on a rectangular garden of several rows
\* after it built three regions or more
C22_Witness ==
   /\ Constructed
   /\ Rectangular(garden)
   /\ r = Rows(garden)
   /\ Rows(garden) > 1
   /\ Cardinality(RegionIds) >= 3

\* The cell after a cell on the line a side of orientation o runs along
After(cell, o) ==
   IF o = "LEFT" \/ o = "RIGHT" THEN <<cell[1], cell[2] + 1>> ELSE <<cell[1] + 1, cell[2]>>

RECURSIVE RunEnd(_, _, _, _)
\* The last cell of the unbroken run of cells of S that starts at cell, goes on at the
\* next coordinates of the line and has a fence edge of orientation o at every cell
RunEnd(g, S, cell, o) ==
   IF After(cell, o) \in S /\ IsFenceEdge(g, S, After(cell, o), o)
   THEN RunEnd(g, S, After(cell, o), o)
   ELSE cell

\* C23: the candidate side made for a fence edge of orientation o at a stored cell
\* starts at the cell and ends at the last cell of the unbroken run of region cells at
\* the next coordinates of the same line that each have a fence edge of orientation o.
C23_CandidateSideIsTheRunFromItsCell ==
   JustConstructed =>
      \A id \in RegionIds :
         LET tps == RegionAt(id).traverse_positions
         IN  \A k \in 1..Len(tps) : \A o \in Orientations :
                IsPerimeterStatus(tps[k].side_status_map[o]) =>
                   LET cell == <<tps[k].x_position, tps[k].y_position>>
                       rs   == RegionSide(o, Position(cell[1], cell[2]), tps)
                       end  == RunEnd(garden, CellsOf(tps), cell, o)
                   IN  /\ rs.orientation = o
                       /\ rs.start_position = Position(cell[1], cell[2])
                       /\ rs.end_position = Position(end[1], end[2])

\* Witness of C23: a run of two fence edges or more that ends before a cell of the
\* region whose edge of the orientation is no fence edge, in a region with another
\* cell of the line before the run
C23_Witness ==
   /\ JustConstructed
   /\ \E id \in RegionIds :
         LET S == CellsOf(RegionAt(id).traverse_positions)
         IN  \E e \in FenceEdges(garden, S) :
                /\ RunEnd(garden, S, e[1], e[2]) # e[1]
                /\ After(RunEnd(garden, S, e[1], e[2]), e[2]) \in S
                /\ Before(e[1], e[2]) \in S

\* The candidate sides get_num_of_region_sides makes for a list of stored cells: one
\* for every stored edge that is OUT_OF_BOUNDS or ADJACENT_TO_OTHER_PLANT_TYPE
CandidatesOf(tps) ==
   { RegionSide(e[2], Position(tps[e[1]].x_position, tps[e[1]].y_position), tps) :
        e \in { f \in (1..Len(tps)) \X Orientations :
                   IsPerimeterStatus(tps[f[1]].side_status_map[f[2]]) } }

\* The candidate sides of all the regions of the constructed Gardener
AllCandidates ==
   UNION { CandidatesOf(RegionAt(id).traverse_positions) : id \in RegionIds }

\* The coordinates a side covers on its line
RangeOf(rs) ==
   Along(rs.orientation, rs.start_position)..Along(rs.orientation, rs.end_position)

\* Two sides have the orientation and the line in common
SameLine(a, b) ==
   /\ a.orientation = b.orientation
   /\ Across(a.orientation, a.start_position) = Across(b.orientation, b.start_position)

\* C24: two candidate sides compare equal exactly when they have the same orientation,
\* lie on the same line and their ranges [start, end] on the line intersect; the
\* comparison is symmetric.
C24_EqualIffOverlapOnOneLine ==
   JustConstructed =>
      LET candidates == AllCandidates
      IN  \A a, b \in candidates :
             /\ RegionSideEq(a, b) <=> (SameLine(a, b) /\ RangeOf(a) \cap RangeOf(b) # {})
             /\ RegionSideEq(a, b) <=> RegionSideEq(b, a)

\* Witness of C24: two different candidates that compare equal, two of one orientation
\* on one line that do not, and two of one orientation with intersecting ranges on
\* different lines
C24_Witness ==
   /\ JustConstructed
   /\ order = SideOrientation
   /\ \E a, b \in AllCandidates : a # b /\ RegionSideEq(a, b)
   /\ \E a, b \in AllCandidates : SameLine(a, b) /\ ~RegionSideEq(a, b)
   /\ \E a, b \in AllCandidates :
         /\ a.orientation = b.orientation
         /\ ~SameLine(a, b)
         /\ RangeOf(a) \cap RangeOf(b) # {}

\* The sides get_num_of_region_sides keeps for a list of stored cells
KeptSides(tps, ord) == region_sides_after(tps, ord, 4 * Len(tps))

\* The candidate side made for the first edge of a run
CandidateAt(tps, e) == RegionSide(e[2], Position(e[1][1], e[1][2]), tps)

\* C25: two runs of fence edges of one orientation on one line of a region with a gap
\* between them are two sides: their candidates do not compare equal and
\* get_num_of_region_sides keeps a side for each.
C25_RunsAcrossAGapAreTwoSides ==
   JustConstructed =>
      \A id \in RegionIds :
         LET tps   == RegionAt(id).traverse_positions
             runs  == Runs(garden, CellsOf(tps))
             sides == KeptSides(tps, order)
         IN  \A e1, e2 \in runs :
                (/\ e1 # e2
                 /\ e1[2] = e2[2]
                 /\ Across(e1[2], Position(e1[1][1], e1[1][2]))
                       = Across(e2[2], Position(e2[1][1], e2[1][2]))) =>
                   /\ ~RegionSideEq(CandidateAt(tps, e1), CandidateAt(tps, e2))
                   /\ \E j1, j2 \in 1..Len(sides) :
                         /\ j1 # j2
                         /\ RegionSideEq(sides[j1], CandidateAt(tps, e1))
                         /\ RegionSideEq(sides[j2], CandidateAt(tps, e2))

\* Witness of C25: a region with two runs of one orientation on one line whose gap is
\* a single cell of another plant
C25_Witness ==
   /\ JustConstructed
   /\ \E id \in RegionIds :
         LET S    == CellsOf(RegionAt(id).traverse_positions)
             runs == Runs(garden, S)
         IN  \E e1, e2 \in runs :
                /\ e1 # e2
                /\ e1[2] = e2[2]
                /\ After(After(RunEnd(garden, S, e1[1], e1[2]), e1[2]), e1[2]) = e2[1]
                /\ After(RunEnd(garden, S, e1[1], e1[2]), e1[2]) \in Cells(garden) \ S

\* Regions of at most MaxPermutedCells cells are counted under every order of their cells.
MaxPermutedCells == 4

\* The lists that hold the stored cells of tps in another order
CellOrders(tps) ==
   { [k \in 1..Len(tps) |-> tps[p[k]]] : p \in Permutations(1..Len(tps)) }

RECURSIVE RunStart(_, _, _, _)
\* The first cell of the maximal run of fence edges of orientation o that holds cell
RunStart(g, S, cell, o) ==
   IF <<Before(cell, o), o>> \in FenceEdges(g, S)
   THEN RunStart(g, S, Before(cell, o), o)
   ELSE cell

\* The maximal run a candidate side comes from, named by its first edge
RunOf(g, S, rs) ==
   <<RunStart(g, S, <<rs.start_position.x_position, rs.start_position.y_position>>,
              rs.orientation),
     rs.orientation>>

\* C26: among the candidate sides of one region operator== is an equivalence relation
\* whose classes are the maximal runs, and the number of sides get_num_of_region_sides
\* keeps is the number of runs under every iteration order of side_status_map and
\* under every order of the stored cells. The candidates of a region are the same
\* under every order of the flood fill, so they are compared in the runs whose fill
\* went in declaration order.
C26_DeduplicationIsOrderIndependent ==
   JustConstructed =>
      \A id \in RegionIds :
         LET tps        == RegionAt(id).traverse_positions
             S          == CellsOf(tps)
             candidates == CandidatesOf(tps)
             runs       == Cardinality(Runs(garden, S))
         IN  /\ get_num_of_region_sides(tps, order) = runs
             /\ order = SideOrientation =>
                   /\ \A a, b \in candidates :
                         RegionSideEq(a, b) <=> RunOf(garden, S, a) = RunOf(garden, S, b)
                   /\ \A a, b, d \in candidates :
                         /\ RegionSideEq(a, a)
                         /\ RegionSideEq(a, b) => RegionSideEq(b, a)
                         /\ (RegionSideEq(a, b) /\ RegionSideEq(b, d)) => RegionSideEq(a, d)
                   /\ \A ord \in IterationOrders : get_num_of_region_sides(tps, ord) = runs
                   /\ Len(tps) <= MaxPermutedCells =>
                         \A cells \in CellOrders(tps) :
                            get_num_of_region_sides(cells, order) = runs

\* Witness of C26: a region of MaxPermutedCells cells with a run of three fence edges,
\* whose candidates are three different sides that compare equal
C26_Witness ==
   /\ JustConstructed
   /\ order = SideOrientation
   /\ \E id \in RegionIds :
         LET tps == RegionAt(id).traverse_positions
         IN  /\ Len(tps) = MaxPermutedCells
             /\ \E a, b, d \in CandidatesOf(tps) :
                   /\ a # b /\ b # d /\ a # d
                   /\ RegionSideEq(a, b) /\ RegionSideEq(b, d)

\* garden_groups as find_garden_groups builds them when side_status_map iterates in
\* order ord: the Regions of the same seeds, each filled by get_region_plots under ord
garden_groups_under(ord) ==
   [p \in DOMAIN garden_groups |->
      [garden_groups[p] EXCEPT !.regions =
         [k \in 1..Len(@) |->
            LET filled == get_region_plots(SeedOf(@[k])[2], SeedOf(@[k])[1], garden, p, ord)
            IN  Region(p, filled.traverse_positions, filled.visited_garden_plots)]]]

\* C27: both prices, and the area, the perimeter and the number of sides of every
\* region, are the same under every iteration order of side_status_map: under the
\* order of the run they are what they are when the fill goes in declaration order.
C27_PricesAreOrderIndependent ==
   JustConstructed =>
      LET other == garden_groups_under(SideOrientation)
      IN  /\ \A with_sides \in BOOLEAN :
                Gardener_get_fence_pricing(garden_groups, with_sides, order)
                   = Gardener_get_fence_pricing(other, with_sides, SideOrientation)
          /\ \A id \in RegionIds :
                LET tps  == RegionAt(id).traverse_positions
                    tps2 == other[id[1]].regions[id[2]].traverse_positions
                IN  /\ get_area(tps) = get_area(tps2)
                    /\ get_perimeter(tps) = get_perimeter(tps2)
                    /\ get_num_of_region_sides(tps, order)
                          = get_num_of_region_sides(tps2, SideOrientation)

\* Witness of C27: a constructed garden with a region in which a cell is stored with
\* other statuses than it is when the fill goes in declaration order
C27_Witness ==
   /\ JustConstructed
   /\ Cardinality(RegionIds) > 1
   /\ \E id \in RegionIds :
         LET tps  == RegionAt(id).traverse_positions
             tps2 == garden_groups_under(SideOrientation)[id[1]].regions[id[2]].traverse_positions
         IN  \E cell \in CellsOf(tps) :
                StoredAt(tps, cell).side_status_map # StoredAt(tps2, cell).side_status_map

\* The cells of the regions find_garden_groups has added to their groups so far
CellsOfRegionsBuilt ==
   UNION { CellsOf(RegionAt(id).traverse_positions) : id \in RegionIds }

\* C28: at every iteration of the scan of find_garden_groups the cells marked in the
\* Gardener's visited grid are the cells of the regions built so far; while a region
\* is filled from its seed, the seed is marked as well and no cell the fill stores is
\* a cell of an earlier region.
C28_VisitedIsTheUnionOfRegions ==
   (garden # << >> /\ Rectangular(garden) /\ pc \in {"scan", "fill", "done"}) =>
      LET built  == CellsOfRegionsBuilt
          marked == Marked(visited_garden_plots)
      IN  /\ pc \in {"scan", "done"} => marked = built
          /\ pc = "fill" =>
                /\ marked = built \cup {<<c, r>>}
                /\ <<c, r>> \notin built
                /\ CellsOf(traverse_positions) \cap built = {}

\* Witness of C28: the fill of a region has stored two cells or more while an earlier
\* region of the same plant is in the group
C28_Witness ==
   /\ garden # << >>
   /\ Rectangular(garden)
   /\ pc = "fill"
   /\ Len(traverse_positions) >= 2
   /\ \E id \in RegionIds : id[1] = plant

\* Cell a comes before cell b in the row-major order of the scan
RowMajorBefore(a, b) == a[2] < b[2] \/ (a[2] = b[2] /\ a[1] < b[1])

\* C29: regions are made in the row-major order of their seeds. When the scan comes to
\* (r, c), every cell before it belongs to a region built, every region built has its
\* seed before it, the seed of a region is the first of its cells in row-major order,
\* the regions of a group are stored in the order of their seeds and no two regions
\* share a cell; the region being filled has the cell of the scan for its seed; on
\* return there is one region for each connected component.
C29_RegionsInRowMajorOrderOfSeeds ==
   /\ (garden # << >> /\ Rectangular(garden) /\ (pc = "scan" \/ JustConstructed)) =>
         LET built   == CellsOfRegionsBuilt
             ids     == RegionIds
             seed    == [id \in ids |-> SeedOf(RegionAt(id))]
             cellsof == [id \in ids |-> CellsOf(RegionAt(id).traverse_positions)]
         IN  /\ \A cell \in Cells(garden) :
                   RowMajorBefore(cell, <<c, r>>) => cell \in built
             /\ \A id \in ids :
                   /\ RowMajorBefore(seed[id], <<c, r>>)
                   /\ \A cell \in cellsof[id] \ {seed[id]} : RowMajorBefore(seed[id], cell)
                   /\ \A id2 \in ids :
                         /\ (id2[1] = id[1] /\ id[2] < id2[2])
                               => RowMajorBefore(seed[id], seed[id2])
                         /\ id2 # id => cellsof[id] \cap cellsof[id2] = {}
             /\ JustConstructed =>
                   /\ { cellsof[id] : id \in ids } = Components(garden)
                   /\ Cardinality(ids) = Cardinality(Components(garden))
   /\ (Rectangular(garden) /\ pc = "fill") =>
         /\ traverse_positions # << >>
         /\ traverse_positions[1].x_position = c
         /\ traverse_positions[1].y_position = r
         /\ At(visited_garden_plots, r, c)

\* Witness of C29: the scan is at a cell it skips, in a row below the seed of the
\* cell's region, while another region of the same plant has still to be built
C29_Witness ==
   /\ garden # << >>
   /\ Rectangular(garden)
   /\ pc = "scan"
   /\ c < Cols(garden)
   /\ At(visited_garden_plots, r, c)
   /\ \E id \in RegionIds :
         /\ <<c, r>> \in CellsOf(RegionAt(id).traverse_positions)
         /\ SeedOf(RegionAt(id))[2] < r
   /\ \E cell \in Cells(garden) \ CellsOfRegionsBuilt : LabelOf(garden, cell) = At(garden, r, c)

\* C30: a region has at most as many sides as its perimeter has edges: every side kept
\* is the candidate of a stored fence edge and every candidate compares equal to
\* exactly one side kept; so the price with sides is at most the price without.
C30_SidesAtMostPerimeter ==
   JustConstructed =>
      /\ \A id \in RegionIds :
            LET tps        == RegionAt(id).traverse_positions
                sides      == KeptSides(tps, order)
                candidates == CandidatesOf(tps)
            IN  /\ Len(sides) = get_num_of_region_sides(tps, order)
                /\ Len(sides) <= get_perimeter(tps)
                /\ \A j \in 1..Len(sides) : sides[j] \in candidates
                /\ \A rs \in candidates :
                      Cardinality({ j \in 1..Len(sides) : RegionSideEq(sides[j], rs) }) = 1
                /\ Region_get_fence_pricing(RegionAt(id), TRUE, order)
                      <= Region_get_fence_pricing(RegionAt(id), FALSE, order)
      /\ Gardener_get_fence_pricing(garden_groups, TRUE, order)
            <= Gardener_get_fence_pricing(garden_groups, FALSE, order)

\* Witness of C30: a constructed garden with a region that has as many sides as edges
\* in its perimeter and a region that has fewer sides
C30_Witness ==
   /\ JustConstructed
   /\ \E id \in RegionIds :
         get_num_of_region_sides(RegionAt(id).traverse_positions, order)
            = get_perimeter(RegionAt(id).traverse_positions)
   /\ \E id \in RegionIds :
         get_num_of_region_sides(RegionAt(id).traverse_positions, order)
            < get_perimeter(RegionAt(id).traverse_positions)

====
